---- MODULE Spec2Model ----
(***************************************************************************)
(* Model of lib/broker-agent-stack.ts (BrokerAgentStack): the knowledge-   *)
(* base sync state machine, the S3 trigger that starts it, and the order   *)
(* in which CloudFormation may create the stack's resources.               *)
(*                                                                         *)
(* The state machine is written down as data (one record per state, as the *)
(* constructs of the stack declare them) and run by an interpreter of the  *)
(* Amazon States Language: Pass, Task (LambdaInvoke, with the retrier the  *)
(* construct adds by default), Wait, Choice, Succeed, Fail, and the        *)
(* execution timeout of the StateMachine construct.                        *)
(*                                                                         *)
(* The module also covers the custom resources of the stack through the    *)
(* life of the stack (create, roll back, update, delete), and the ping     *)
(* test of the local test scripts of the agent runtime.                    *)
(*                                                                         *)
(* The ingestion jobs that the executions start are part of the state,     *)
(* each with the status the ingestion service has brought it to, and so is *)
(* the identifier Bedrock gives the knowledge base the stack creates.      *)
(*                                                                         *)
(* The specifications share the variables:                                 *)
(*   Spec           one execution of the state machine, with a clock that  *)
(*                  counts minutes (FairSpec: the same with fairness);     *)
(*   SpecDeploy     the creation of the stack's resources by               *)
(*                  CloudFormation, the asset deployment included;         *)
(*   SpecTrigger    the deployed stack: object-creation events, the        *)
(*                  trigger function and the executions it starts, with a  *)
(*                  coarse clock;                                          *)
(*   SpecLifecycle  the stack created, rolled back, updated and deleted;   *)
(*   SpecPing       a run of a test script from its ping test on.          *)
(***************************************************************************)
EXTENDS Integers, Sequences, FiniteSets, TLC

(***************************************************************************)
(* Bounds of the model.                                                    *)
(***************************************************************************)
\* object-creation events (and so executions) considered
MaxEvents == 2

\* stack updates considered
MaxUpdates == 2

\* values of time_of_last_update a ping response is given
MaxTime == 3

Events == 1 .. MaxEvents

Executions == 1 .. MaxEvents

(***************************************************************************)
(* Durations of the stack.                                                 *)
(***************************************************************************)
\* waitForSync: WaitTime.duration(cdk.Duration.minutes(2))
WaitMinutes == 2

\* syncStateMachine: timeout: cdk.Duration.hours(2), in minutes
TimeoutMinutes == 120

\* LambdaInvoke, retryOnServiceExceptions left at its default (true):
\* the construct adds a retrier with maxAttempts 6
MaxAttempts == 6

(***************************************************************************)
(* The resources of the stack and what each needs before it is created.    *)
(***************************************************************************)
Resources ==
    {"policySourceBucket",
     "createVectorBucketLambda", "vectorBucketCr",
     "createVectorIndexLambda", "vectorIndexCr",
     "kbRole", "createKnowledgeBaseLambda", "knowledgeBaseCr",
     "bedrockDataSource", "syncKnowledgeBaseLambda", "syncStateMachine",
     "triggerSyncLambda", "eventNotification", "s3DeployPolicies"}

\* the declared dependencies without the one of the index on the bucket
addDependencyIndexFree ==
    {<<"knowledgeBaseCr", "vectorIndexCr">>,
     <<"knowledgeBaseCr", "kbRole">>,
     <<"s3DeployPolicies", "vectorBucketCr">>,
     <<"s3DeployPolicies", "vectorIndexCr">>,
     <<"s3DeployPolicies", "knowledgeBaseCr">>,
     <<"s3DeployPolicies", "bedrockDataSource">>,
     <<"s3DeployPolicies", "syncStateMachine">>,
     <<"s3DeployPolicies", "triggerSyncLambda">>}

\* the declared dependencies without the one of the asset deployment on the
\* knowledge base
addDependencyDeployFree ==
    {<<"vectorIndexCr", "vectorBucketCr">>,
     <<"knowledgeBaseCr", "vectorIndexCr">>,
     <<"knowledgeBaseCr", "kbRole">>,
     <<"s3DeployPolicies", "vectorBucketCr">>,
     <<"s3DeployPolicies", "vectorIndexCr">>,
     <<"s3DeployPolicies", "bedrockDataSource">>,
     <<"s3DeployPolicies", "syncStateMachine">>,
     <<"s3DeployPolicies", "triggerSyncLambda">>}

\* x.node.addDependency(y), as <<x, y>>
addDependency ==
    {<<"vectorIndexCr", "vectorBucketCr">>,
     <<"knowledgeBaseCr", "vectorIndexCr">>,
     <<"knowledgeBaseCr", "kbRole">>,
     <<"s3DeployPolicies", "vectorBucketCr">>,
     <<"s3DeployPolicies", "vectorIndexCr">>,
     <<"s3DeployPolicies", "knowledgeBaseCr">>,
     <<"s3DeployPolicies", "bedrockDataSource">>,
     <<"s3DeployPolicies", "syncStateMachine">>,
     <<"s3DeployPolicies", "triggerSyncLambda">>}

\* <<x, y>>: a property of x is an attribute of y (a name, an ARN, an id),
\* which CloudFormation can resolve only once y exists
references ==
    {<<"vectorBucketCr", "createVectorBucketLambda">>,
     <<"vectorIndexCr", "createVectorIndexLambda">>,
     <<"knowledgeBaseCr", "createKnowledgeBaseLambda">>,
     <<"knowledgeBaseCr", "kbRole">>,
     <<"bedrockDataSource", "policySourceBucket">>,
     <<"syncKnowledgeBaseLambda", "bedrockDataSource">>,
     <<"syncStateMachine", "syncKnowledgeBaseLambda">>,
     <<"syncStateMachine", "bedrockDataSource">>,
     <<"triggerSyncLambda", "syncStateMachine">>,
     <<"triggerSyncLambda", "bedrockDataSource">>,
     <<"eventNotification", "policySourceBucket">>,
     <<"eventNotification", "triggerSyncLambda">>,
     <<"s3DeployPolicies", "policySourceBucket">>}

\* the resources r is created after
DependsOn(r) ==
    {d \in Resources : <<r, d>> \in addDependency \cup references}

(***************************************************************************)
(* The custom resources: the AWS SDK call each makes when CloudFormation   *)
(* sends it a Create, an Update or a Delete event.                         *)
(***************************************************************************)
policyVectorBucketName == "broker-agent-policy-vector-bucket"

policyVectorIndexName == "broker-agent-policy-vector-index"

\* const vectorDimension = 1024
vectorDimension == 1024

knowledgeBaseName == "broker-agent-bedrock-kb"

CustomResources == {"vectorBucketCr", "vectorIndexCr", "knowledgeBaseCr"}

vectorBucketCr ==
    [onCreate |->
        [service    |-> "Lambda",
         action     |-> "invoke",
         parameters |-> [FunctionName |-> "createVectorBucketLambda",
                         Payload |-> [vector_bucket_name |-> policyVectorBucketName]],
         physicalResourceId |-> "broker-agent-policy-vector-bucket-cr-on-create"],
     onUpdate |->
        [service |-> "STS",
         action  |-> "getCallerIdentity",
         physicalResourceId |-> "broker-agent-policy-vector-bucket-cr-on-update"],
     onDelete |->
        [service |-> "STS",
         action  |-> "getCallerIdentity",
         physicalResourceId |-> "broker-agent-policy-vector-bucket-cr-on-delete"]]

\* the index resource with an update that asks for another dimension
vectorIndexCrResized ==
    [onCreate |->
        [service    |-> "Lambda",
         action     |-> "invoke",
         parameters |-> [FunctionName |-> "createVectorIndexLambda",
                         Payload |-> [vector_bucket_name |-> policyVectorBucketName,
                                      vector_index_name  |-> policyVectorIndexName,
                                      vector_dimension   |-> vectorDimension]],
         physicalResourceId |-> "broker-agent-policy-vector-index-cr-on-create"],
     onUpdate |->
        [service    |-> "Lambda",
         action     |-> "invoke",
         parameters |-> [FunctionName |-> "createVectorIndexLambda",
                         Payload |-> [vector_bucket_name |-> policyVectorBucketName,
                                      vector_index_name  |-> policyVectorIndexName,
                                      vector_dimension   |-> vectorDimension \div 2]],
         physicalResourceId |-> "broker-agent-policy-vector-index-cr-on-update"],
     onDelete |->
        [service |-> "STS",
         action  |-> "getCallerIdentity",
         physicalResourceId |-> "broker-agent-policy-vector-index-cr-on-delete"]]

\* the index resource with a Delete that deletes the index
vectorIndexCrDeleting ==
    [onCreate |->
        [service    |-> "Lambda",
         action     |-> "invoke",
         parameters |-> [FunctionName |-> "createVectorIndexLambda",
                         Payload |-> [vector_bucket_name |-> policyVectorBucketName,
                                      vector_index_name  |-> policyVectorIndexName,
                                      vector_dimension   |-> vectorDimension]],
         physicalResourceId |-> "broker-agent-policy-vector-index-cr-on-create"],
     onUpdate |->
        [service    |-> "Lambda",
         action     |-> "invoke",
         parameters |-> [FunctionName |-> "createVectorIndexLambda",
                         Payload |-> [vector_bucket_name |-> policyVectorBucketName,
                                      vector_index_name  |-> policyVectorIndexName,
                                      vector_dimension   |-> vectorDimension]],
         physicalResourceId |-> "broker-agent-policy-vector-index-cr-on-update"],
     onDelete |->
        [service    |-> "S3Vectors",
         action     |-> "deleteIndex",
         parameters |-> [vectorBucketName |-> policyVectorBucketName,
                         indexName        |-> policyVectorIndexName],
         physicalResourceId |-> "broker-agent-policy-vector-index-cr-on-delete"]]

vectorIndexCr ==
    [onCreate |->
        [service    |-> "Lambda",
         action     |-> "invoke",
         parameters |-> [FunctionName |-> "createVectorIndexLambda",
                         Payload |-> [vector_bucket_name |-> policyVectorBucketName,
                                      vector_index_name  |-> policyVectorIndexName,
                                      vector_dimension   |-> vectorDimension]],
         physicalResourceId |-> "broker-agent-policy-vector-index-cr-on-create"],
     onUpdate |->
        [service    |-> "Lambda",
         action     |-> "invoke",
         parameters |-> [FunctionName |-> "createVectorIndexLambda",
                         Payload |-> [vector_bucket_name |-> policyVectorBucketName,
                                      vector_index_name  |-> policyVectorIndexName,
                                      vector_dimension   |-> vectorDimension]],
         physicalResourceId |-> "broker-agent-policy-vector-index-cr-on-update"],
     onDelete |->
        [service |-> "STS",
         action  |-> "getCallerIdentity",
         physicalResourceId |-> "broker-agent-policy-vector-index-cr-on-delete"]]

knowledgeBaseCr ==
    [onCreate |->
        [service    |-> "Lambda",
         action     |-> "invoke",
         parameters |-> [FunctionName |-> "createKnowledgeBaseLambda",
                         Payload |-> [kb_name           |-> knowledgeBaseName,
                                      role_arn          |-> "kbRole.roleArn",
                                      region_name       |-> "this.region",
                                      account_id        |-> "this.account",
                                      vector_store_name |-> policyVectorBucketName,
                                      vector_index_name |-> policyVectorIndexName]],
         physicalResourceId |-> "broker-agent-bedrock-kb-cr-on-create"],
     onUpdate |->
        [service |-> "STS",
         action  |-> "getCallerIdentity",
         physicalResourceId |-> "broker-agent-bedrock-kb-cr-on-update"],
     onDelete |->
        [service |-> "STS",
         action  |-> "getCallerIdentity",
         physicalResourceId |-> "broker-agent-bedrock-kb-cr-on-delete"]]

\* the construct of custom resource r
AwsCustomResource(r) ==
    CASE r = "vectorBucketCr"  -> vectorBucketCr
      [] r = "vectorIndexCr"   -> vectorIndexCr
      [] r = "knowledgeBaseCr" -> knowledgeBaseCr

\* the call the resource makes on a Create, Update or Delete event
CallOn(r, event) ==
    CASE event = "Create" -> AwsCustomResource(r).onCreate
      [] event = "Update" -> AwsCustomResource(r).onUpdate
      [] event = "Delete" -> AwsCustomResource(r).onDelete

\* what the provisioning functions manage
Managed == {"vectorBucket", "vectorIndex", "knowledgeBase"}

\* the function's handler creates (create_vector_bucket.handler,
\* create_vector_index.handler, create_knowledge_base.handler)
Creates(FunctionName) ==
    CASE FunctionName = "createVectorBucketLambda"  -> "vectorBucket"
      [] FunctionName = "createVectorIndexLambda"   -> "vectorIndex"
      [] FunctionName = "createKnowledgeBaseLambda" -> "knowledgeBase"

NotProvisioned == [state |-> "ABSENT"]

\* identifiers Bedrock gives to knowledge bases: ten characters of its choice
KnowledgeBaseIds == {"F0RI3FAYPP", "KB2NDDEPLY"}

\* what is provisioned after call c is made with p provisioned: invoking a
\* provisioning function creates what it manages from the payload, unless it
\* is there already; deleting an index removes it; sts:GetCallerIdentity
\* changes nothing
SdkCall(c, p) ==
    IF c.service = "Lambda" /\ c.action = "invoke"
    THEN [p EXCEPT ![Creates(c.parameters.FunctionName)] =
              IF @ = NotProvisioned THEN c.parameters.Payload ELSE @]
    ELSE IF c.service = "S3Vectors" /\ c.action = "deleteIndex"
    THEN [p EXCEPT !["vectorIndex"] = NotProvisioned]
    ELSE p

(***************************************************************************)
(* The data source and the functions' environments.                        *)
(***************************************************************************)
bedrockDataSource ==
    [knowledgeBaseId |-> "F0RI3FAYPP",
     bucketArn       |-> "policySourceBucket.bucketArn"]

\* bedrockDataSource.attrDataSourceId (a deploy-time attribute)
attrDataSourceId == "bedrockDataSource.attrDataSourceId"

\* environment of syncKnowledgeBaseLambda
syncKnowledgeBaseEnvironment ==
    [KNOWLEDGE_BASE_ID |-> "F0RI3FAYPP",
     DATA_SOURCE_ID    |-> attrDataSourceId]

\* environment of the trigger function naming another knowledge base
triggerSyncEnvironmentOtherKb ==
    [STATE_MACHINE_ARN |-> "syncStateMachine.stateMachineArn",
     KNOWLEDGE_BASE_ID |-> "ANOTHERKB0",
     DATA_SOURCE_ID    |-> attrDataSourceId]

\* environment of triggerSyncLambda
triggerSyncEnvironment ==
    [STATE_MACHINE_ARN |-> "syncStateMachine.stateMachineArn",
     KNOWLEDGE_BASE_ID |-> "F0RI3FAYPP",
     DATA_SOURCE_ID    |-> attrDataSourceId]

\* a notification configured for removals instead of creations
eventNotificationOnRemoval ==
    [eventTypes |-> {"OBJECT_REMOVED"}, destination |-> "triggerSyncLambda"]

\* policySourceBucket.addEventNotification(OBJECT_CREATED,
\*   LambdaDestination(triggerSyncLambda))
eventNotification ==
    [eventTypes |-> {"OBJECT_CREATED"}, destination |-> "triggerSyncLambda"]

(***************************************************************************)
(* The states of the workflow, as the stack constructs them.               *)
(***************************************************************************)
checkSyncStatus ==
    [id |-> "CheckSyncStatus", type |-> "Pass"]

\* a retrier that retries every error (States.ALL), the function's own too
lambdaInvokeRetryAll ==
    [errorEquals |-> {"Lambda.ClientExecutionTimeoutException",
                      "Lambda.ServiceException",
                      "Lambda.AWSLambdaException",
                      "Lambda.SdkClientException",
                      "Lambda.Unknown"},
     maxAttempts |-> MaxAttempts]

\* a retrier that allows two attempts more
lambdaInvokeRetryMore ==
    [errorEquals |-> {"Lambda.ClientExecutionTimeoutException",
                      "Lambda.ServiceException",
                      "Lambda.AWSLambdaException",
                      "Lambda.SdkClientException"},
     maxAttempts |-> MaxAttempts + 2]

\* the retrier LambdaInvoke adds when retryOnServiceExceptions is not
\* switched off
lambdaInvokeRetry ==
    [errorEquals |-> {"Lambda.ClientExecutionTimeoutException",
                      "Lambda.ServiceException",
                      "Lambda.AWSLambdaException",
                      "Lambda.SdkClientException"},
     maxAttempts |-> MaxAttempts]

startSyncJob ==
    [id      |-> "StartSyncJob",
     type    |-> "Task",
     payload |-> [knowledge_base_id |-> "F0RI3FAYPP",
                  data_source_id    |-> attrDataSourceId],
     retry   |-> lambdaInvokeRetry]

waitForSync ==
    [id |-> "WaitForSync", type |-> "Wait", minutes |-> WaitMinutes]

checkJobStatus ==
    [id      |-> "CheckJobStatus",
     type    |-> "Task",
     payload |-> [action            |-> "check_status",
                  knowledge_base_id |-> "F0RI3FAYPP",
                  data_source_id    |-> attrDataSourceId],
     retry   |-> lambdaInvokeRetry]

syncComplete ==
    [id |-> "SyncComplete", type |-> "Succeed"]

syncFailed ==
    [id |-> "SyncFailed", type |-> "Fail"]

\* the Choice with the targets of its two rules exchanged
IsSyncCompleteSwapped ==
    [id        |-> "IsSyncComplete",
     type      |-> "Choice",
     rules     |-> << [stringEquals |-> "COMPLETE", next |-> "SyncFailed"],
                      [stringEquals |-> "FAILED",   next |-> "SyncComplete"] >>,
     otherwise |-> "WaitForSync"]

\* the Choice with an otherwise branch that gives up instead of polling again
IsSyncCompleteGivesUp ==
    [id        |-> "IsSyncComplete",
     type      |-> "Choice",
     rules     |-> << [stringEquals |-> "COMPLETE", next |-> "SyncComplete"],
                      [stringEquals |-> "FAILED",   next |-> "SyncFailed"] >>,
     otherwise |-> "SyncFailed"]

\* the Choice with an otherwise branch that starts the job again
IsSyncCompleteRestarts ==
    [id        |-> "IsSyncComplete",
     type      |-> "Choice",
     rules     |-> << [stringEquals |-> "COMPLETE", next |-> "SyncComplete"],
                      [stringEquals |-> "FAILED",   next |-> "SyncFailed"] >>,
     otherwise |-> "StartSyncJob"]

\* the Choice 'IsSyncComplete': two stringEquals rules on
\* $.Payload.final_status, in order, and the otherwise branch
IsSyncComplete ==
    [id        |-> "IsSyncComplete",
     type      |-> "Choice",
     rules     |-> << [stringEquals |-> "COMPLETE", next |-> "SyncComplete"],
                      [stringEquals |-> "FAILED",   next |-> "SyncFailed"] >>,
     otherwise |-> "WaitForSync"]

\* the chain without the Wait between the start and the first check
definitionNoFirstWait ==
    [startAt |-> "CheckSyncStatus",
     next    |-> [CheckSyncStatus |-> "StartSyncJob",
                  StartSyncJob    |-> "CheckJobStatus",
                  WaitForSync     |-> "CheckJobStatus",
                  CheckJobStatus  |-> "IsSyncComplete"]]

\* checkSyncStatus.next(startSyncJob).next(waitForSync).next(checkJobStatus)
\*   .next(Choice): the start state and the Next field of each chained state
definition ==
    [startAt |-> "CheckSyncStatus",
     next    |-> [CheckSyncStatus |-> "StartSyncJob",
                  StartSyncJob    |-> "WaitForSync",
                  WaitForSync     |-> "CheckJobStatus",
                  CheckJobStatus  |-> "IsSyncComplete"]]

\* the state machine declared without a timeout
syncStateMachineNoTimeout ==
    [definition |-> definition, hasTimeout |-> FALSE, timeout |-> TimeoutMinutes]

syncStateMachine ==
    [definition |-> definition, hasTimeout |-> TRUE, timeout |-> TimeoutMinutes]

StateNames ==
    {"CheckSyncStatus", "StartSyncJob", "WaitForSync", "CheckJobStatus",
     "IsSyncComplete", "SyncComplete", "SyncFailed"}

(***************************************************************************)
(* The sync function (sync_knowledge_base.handler) as the workflow sees    *)
(* it: what one invocation can come back with.                             *)
(***************************************************************************)
\* statuses an ingestion job reports
JobStatuses == {"COMPLETE", "FAILED", "IN_PROGRESS", "STARTING"}

\* a response of the function that has no final_status field
NoStatusPayload == [message |-> "no status"]

\* the function's answer to a start request: a job identifier (a job is
\* identified here by the execution whose request started it)
StartPayloads == {[job_id |-> o] : o \in Executions}

\* no ingestion job
NoJob == [status |-> "NONE"]

\* the function's answer to a check_status request
CheckPayloads == {[final_status |-> s] : s \in JobStatuses} \cup {NoStatusPayload}

\* errors an invocation can end with: a Lambda service-side exception, or
\* the function itself failing
InvokeErrors == {"Lambda.ServiceException", "Lambda.Unknown"}

VARIABLES
    pc,          \* pc[e]: the state execution e is in
    status,      \* status[e]: NOT_STARTED, RUNNING, SUCCEEDED, FAILED, TIMED_OUT
    data,        \* data[e]: the JSON the current state received as its input
    retryCount,  \* retryCount[e]: retries made so far by the current Task state
    waited,      \* waited[e]: minutes spent so far in the current Wait state
    elapsed,     \* elapsed[e]: minutes since the execution started
    lastError,   \* lastError[e]: the error of the current state's last failed invocation, or of the execution
    jobs,        \* jobs[e]: ingestion jobs started by e's start requests
    ingestion,   \* ingestion[e]: the ingestion job e's start request started, or NoJob
    requests,    \* requests[e]: the payloads e has invoked the sync function with
    input,       \* input[e]: the input execution e was started with
    cause,       \* cause[e]: the event whose notification started e (0: none)
    events,      \* object-creation events in policySourceBucket so far
    inbox,       \* events notified to the trigger function and not yet handled
    resource,    \* resource[r]: how far CloudFormation is with resource r
    stack,       \* the status of the CloudFormation stack
    provisioned, \* provisioned[m]: what m was created with, or NotProvisioned
    calls,       \* the SDK calls the custom resources have made, in order
    physicalId,  \* physicalId[r]: the physical id custom resource r has reported
    knowledgeBaseId, \* the identifier Bedrock gave the knowledge base created ("None": none yet)
    updates,     \* stack updates so far
    script,      \* the local test script that is run
    line,        \* where the script is: ping, test, invocations, end
    ping_response, \* ping_response: what curl got from /ping, as characters
    printed,     \* what the ping test has printed
    sent,        \* invocation requests the script has sent
    exit         \* the script's exit status, once it has ended

crVars == <<stack, provisioned, calls, physicalId, knowledgeBaseId, updates>>

scriptVars == <<script, line, ping_response, printed, sent, exit>>

envVars == <<input, cause, events, inbox, resource, crVars, scriptVars>>

vars == <<pc, status, data, retryCount, waited, elapsed, lastError, jobs, ingestion,
          requests, input, cause, events, inbox, resource,
          stack, provisioned, calls, physicalId, knowledgeBaseId, updates,
          script, line, ping_response, printed, sent, exit>>

Running(e) == status[e] = "RUNNING"

\* the execution deadline has been reached
DeadlineReached(e) ==
    syncStateMachine.hasTimeout /\ elapsed[e] >= syncStateMachine.timeout

\* the execution may take a step of its state machine
CanStep(e) == Running(e) /\ ~DeadlineReached(e)

\* enter state s with input d, no invocation made and no time spent in it
Enter(e, s, d) ==
    /\ pc' = [pc EXCEPT ![e] = s]
    /\ data' = [data EXCEPT ![e] = d]
    /\ retryCount' = [retryCount EXCEPT ![e] = 0]
    /\ waited' = [waited EXCEPT ![e] = 0]
    /\ lastError' = [lastError EXCEPT ![e] = "None"]

\* the execution ends with the given status and error
EndExecution(e, st, err) ==
    /\ status' = [status EXCEPT ![e] = st]
    /\ lastError' = [lastError EXCEPT ![e] = err]

(***************************************************************************)
(* Amazon States Language: one step of each type of state.                 *)
(***************************************************************************)
\* Pass: hands its input to the next state
PassState(e, s) ==
    /\ CanStep(e) /\ pc[e] = s.id
    /\ Enter(e, syncStateMachine.definition.next[s.id], data[e])
    /\ UNCHANGED <<status, elapsed, jobs, ingestion, requests, envVars>>

\* the ingestion job a start request starts: a job of the knowledge base
\* and the data source the request names, STARTING
StartIngestionJob(request) ==
    [knowledge_base_id |-> request.knowledge_base_id,
     data_source_id    |-> request.data_source_id,
     status            |-> "STARTING"]

\* the jobs a request names: those of its knowledge base and data source,
\* and of its job identifier when it carries one
JobsNamed(request) ==
    {o \in Executions :
        /\ ingestion[o] # NoJob
        /\ ingestion[o].knowledge_base_id = request.knowledge_base_id
        /\ ingestion[o].data_source_id = request.data_source_id
        /\ "job_id" \in DOMAIN request => request.job_id = o}

\* Task (LambdaInvoke): one invocation of the sync function. A start request
\* starts an ingestion job and is answered with its identifier; a
\* check_status request is answered with the status of a job it names, or
\* with no status. Its result
\* replaces the state's data ({Payload: ...}); an error the retrier names is
\* retried while attempts are left; any other error, or a retried one with
\* no attempt left, fails the execution (the Task has no Catch).
LambdaInvoke(e, s, payloads, startsJob) ==
    /\ CanStep(e) /\ pc[e] = s.id
    /\ \/ \E p \in payloads :
            /\ Enter(e, syncStateMachine.definition.next[s.id], [Payload |-> p])
            /\ jobs' = [jobs EXCEPT ![e] = IF startsJob THEN @ + 1 ELSE @]
            /\ IF startsJob
               THEN /\ p.job_id = e
                    /\ ingestion' = [ingestion EXCEPT ![e] = StartIngestionJob(s.payload)]
               ELSE /\ \/ p = NoStatusPayload
                       \/ \E o \in JobsNamed(s.payload) :
                            p = [final_status |-> ingestion[o].status]
                    /\ UNCHANGED ingestion
            /\ UNCHANGED <<status, elapsed>>
       \/ \E err \in InvokeErrors :
            /\ err \in s.retry.errorEquals
            /\ retryCount[e] < s.retry.maxAttempts
            /\ retryCount' = [retryCount EXCEPT ![e] = @ + 1]
            /\ lastError' = [lastError EXCEPT ![e] = err]
            /\ UNCHANGED <<pc, status, data, waited, elapsed, jobs, ingestion>>
       \/ \E err \in InvokeErrors :
            /\ ~(err \in s.retry.errorEquals /\ retryCount[e] < s.retry.maxAttempts)
            /\ EndExecution(e, "FAILED", err)
            /\ UNCHANGED <<pc, data, retryCount, waited, elapsed, jobs, ingestion>>
    /\ requests' = [requests EXCEPT ![e] = @ \cup {s.payload}]
    /\ UNCHANGED envVars

\* Wait: leaves once its duration has passed
WaitState(e, s) ==
    /\ CanStep(e) /\ pc[e] = s.id
    /\ waited[e] >= s.minutes
    /\ Enter(e, syncStateMachine.definition.next[s.id], data[e])
    /\ UNCHANGED <<status, elapsed, jobs, ingestion, requests, envVars>>

\* $.Payload.final_status is present in d
HasFinalStatus(d) ==
    /\ "Payload" \in DOMAIN d
    /\ "final_status" \in DOMAIN d.Payload

RECURSIVE FirstMatch(_, _, _)
\* the next state of the first rule, from rule i on, that the value
\* satisfies; the otherwise state when none does
FirstMatch(s, v, i) ==
    IF i > Len(s.rules) THEN s.otherwise
    ELSE IF s.rules[i].stringEquals = v THEN s.rules[i].next
    ELSE FirstMatch(s, v, i + 1)

\* Choice: a rule whose Variable path is not in the input fails the
\* execution with States.Runtime
ChoiceState(e, s) ==
    /\ CanStep(e) /\ pc[e] = s.id
    /\ \/ /\ HasFinalStatus(data[e])
          /\ Enter(e, FirstMatch(s, data[e].Payload.final_status, 1), data[e])
          /\ UNCHANGED <<status, elapsed, jobs, ingestion, requests>>
       \/ /\ ~HasFinalStatus(data[e])
          /\ EndExecution(e, "FAILED", "States.Runtime")
          /\ UNCHANGED <<pc, data, retryCount, waited, elapsed, jobs, ingestion, requests>>
    /\ UNCHANGED envVars

\* Succeed: the execution ends SUCCEEDED
SucceedState(e, s) ==
    /\ CanStep(e) /\ pc[e] = s.id
    /\ EndExecution(e, "SUCCEEDED", "None")
    /\ UNCHANGED <<pc, data, retryCount, waited, elapsed, jobs, ingestion, requests, envVars>>

\* a Fail state that hands over to the Wait state as a Pass would
FailStateGoesOn(e, s) ==
    /\ CanStep(e) /\ pc[e] = s.id
    /\ Enter(e, "WaitForSync", data[e])
    /\ UNCHANGED <<status, elapsed, jobs, ingestion, requests, envVars>>

\* Fail: the execution ends FAILED
FailState(e, s) ==
    /\ CanStep(e) /\ pc[e] = s.id
    /\ EndExecution(e, "FAILED", "States.Fail")
    /\ UNCHANGED <<pc, data, retryCount, waited, elapsed, jobs, ingestion, requests, envVars>>

(***************************************************************************)
(* The steps of the sync state machine.                                    *)
(***************************************************************************)
\* a first state that ends the execution when another one has a job in flight
CheckSyncStatusExclusive(e) ==
    /\ CanStep(e) /\ pc[e] = checkSyncStatus.id
    /\ IF \E o \in Executions \ {e} : Running(o) /\ jobs[o] > 0
       THEN /\ EndExecution(e, "SUCCEEDED", "None")
            /\ UNCHANGED <<pc, data, retryCount, waited>>
       ELSE /\ Enter(e, syncStateMachine.definition.next[checkSyncStatus.id], data[e])
            /\ UNCHANGED status
    /\ UNCHANGED <<elapsed, jobs, ingestion, requests, envVars>>

CheckSyncStatus(e) == PassState(e, checkSyncStatus)

StartSyncJob(e) == LambdaInvoke(e, startSyncJob, StartPayloads, TRUE)

WaitForSync(e) == WaitState(e, waitForSync)

CheckJobStatus(e) == LambdaInvoke(e, checkJobStatus, CheckPayloads, FALSE)

IsSyncCompleteChoice(e) == ChoiceState(e, IsSyncComplete)

SyncComplete(e) == SucceedState(e, syncComplete)

SyncFailed(e) == FailState(e, syncFailed)

\* the state machine's timeout: the execution is stopped, TIMED_OUT
ExecutionTimeout(e) ==
    /\ Running(e) /\ DeadlineReached(e)
    /\ EndExecution(e, "TIMED_OUT", "States.Timeout")
    /\ UNCHANGED <<pc, data, retryCount, waited, elapsed, jobs, ingestion, requests, envVars>>

\* a step of the state the execution is in
StateStep(e) ==
    \/ CheckSyncStatus(e)
    \/ StartSyncJob(e)
    \/ WaitForSync(e)
    \/ CheckJobStatus(e)
    \/ IsSyncCompleteChoice(e)
    \/ SyncComplete(e)
    \/ SyncFailed(e)

Step(e) == StateStep(e) \/ ExecutionTimeout(e)

\* the ingestion service works on o's job: a job that is STARTING comes to
\* be IN_PROGRESS, and one IN_PROGRESS ends COMPLETE or FAILED
Ingest(o) ==
    /\ ingestion[o] # NoJob
    /\ \E st \in JobStatuses :
          /\ \/ ingestion[o].status = "STARTING" /\ st = "IN_PROGRESS"
             \/ ingestion[o].status = "IN_PROGRESS" /\ st \in {"COMPLETE", "FAILED"}
          /\ ingestion' = [ingestion EXCEPT ![o].status = st]
    /\ UNCHANGED <<pc, status, data, retryCount, waited, elapsed, lastError, jobs,
                   requests, envVars>>

\* a minute of wall-clock time passes for a running execution; a Wait state
\* is left as soon as its duration is over
Tick(e) ==
    /\ Running(e) /\ elapsed[e] < TimeoutMinutes
    /\ pc[e] = "WaitForSync" => waited[e] < WaitMinutes
    /\ elapsed' = [elapsed EXCEPT ![e] = @ + 1]
    /\ waited' = [waited EXCEPT ![e] = IF pc[e] = "WaitForSync" THEN @ + 1 ELSE @]
    /\ UNCHANGED <<pc, status, data, retryCount, lastError, jobs, ingestion, requests, envVars>>

\* the coarse clock: either the rest of the current wait passes and the
\* deadline is still ahead (elapsed[e] then stays a lower bound of the
\* minutes run), or all the time left to the deadline passes and the
\* state machine's timeout stops the execution
Elapse(e) ==
    /\ Running(e) /\ elapsed[e] < TimeoutMinutes
    /\ \/ /\ pc[e] = "WaitForSync" /\ waited[e] < WaitMinutes
          /\ waited' = [waited EXCEPT ![e] = WaitMinutes]
          /\ UNCHANGED <<status, elapsed, lastError>>
       \/ /\ syncStateMachine.hasTimeout
          /\ elapsed' = [elapsed EXCEPT ![e] = syncStateMachine.timeout]
          /\ EndExecution(e, "TIMED_OUT", "States.Timeout")
          /\ UNCHANGED waited
    /\ UNCHANGED <<pc, data, retryCount, jobs, ingestion, requests, envVars>>

(***************************************************************************)
(* The trigger: an object created in policySourceBucket, the notification  *)
(* of triggerSyncLambda, and the execution its handler starts.             *)
(***************************************************************************)
\* the input trigger_sync.handler starts the state machine with: the two
\* identifiers of its environment
ExecutionInput ==
    [knowledge_base_id |-> triggerSyncEnvironment.KNOWLEDGE_BASE_ID,
     data_source_id    |-> triggerSyncEnvironment.DATA_SOURCE_ID]

\* the executions started so far
Started == {e \in Executions : status[e] # "NOT_STARTED"}

\* StartExecution: execution e begins at the start state with input d
StartExecution(e, d) ==
    /\ pc' = [pc EXCEPT ![e] = syncStateMachine.definition.startAt]
    /\ status' = [status EXCEPT ![e] = "RUNNING"]
    /\ data' = [data EXCEPT ![e] = d]
    /\ input' = [input EXCEPT ![e] = d]

\* an object is created in the bucket; the bucket notifies the destination
\* of a notification configured for the event type, once that is in place
ObjectCreated ==
    /\ resource["policySourceBucket"] = "CREATE_COMPLETE"
    /\ events < MaxEvents
    /\ events' = events + 1
    /\ inbox' = IF /\ resource["eventNotification"] = "CREATE_COMPLETE"
                   /\ "OBJECT_CREATED" \in eventNotification.eventTypes
                THEN inbox \cup {events + 1}
                ELSE inbox
    /\ UNCHANGED <<pc, status, data, retryCount, waited, elapsed, lastError,
                   jobs, ingestion, requests, input, cause, resource, crVars, scriptVars>>

\* s3DeployPolicies, while it is being created, copies a document of the
\* assets into policySourceBucket
UploadPolicies ==
    /\ resource["s3DeployPolicies"] = "CREATE_IN_PROGRESS"
    /\ ObjectCreated

\* trigger_sync.handler on the notification of event k: one StartExecution
\* of the state machine of its environment
TriggerSync(k) ==
    /\ k \in inbox
    /\ eventNotification.destination = "triggerSyncLambda"
    /\ LET e == Cardinality(Started) + 1
       IN  /\ e \in Executions
           /\ StartExecution(e, ExecutionInput)
           /\ cause' = [cause EXCEPT ![e] = k]
    /\ inbox' = inbox \ {k}
    /\ UNCHANGED <<retryCount, waited, elapsed, lastError, jobs, ingestion, requests, events,
                   resource, crVars, scriptVars>>

(***************************************************************************)
(* CloudFormation creating the stack: a resource is created once all it    *)
(* depends on is complete; independent resources are created in any order  *)
(* and at the same time.                                                   *)
(***************************************************************************)
\* nothing happens to the executions, the events and their notifications
execVars == <<pc, status, data, retryCount, waited, elapsed, lastError,
              jobs, ingestion, requests, input, cause, events, inbox, scriptVars>>

\* bedrock:CreateKnowledgeBase: the knowledge base that comes to be
\* provisioned gets its identifier from Bedrock
CreateKnowledgeBase ==
    IF /\ provisioned["knowledgeBase"] = NotProvisioned
       /\ provisioned'["knowledgeBase"] # NotProvisioned
    THEN knowledgeBaseId' \in KnowledgeBaseIds
    ELSE UNCHANGED knowledgeBaseId

\* custom resource r handles an event: it makes the call of the event, and
\* reports the call's physical id (on Create and Update)
OnEvent(r, event) ==
    /\ calls' = Append(calls, [cr |-> r, event |-> event, call |-> CallOn(r, event)])
    /\ provisioned' = SdkCall(CallOn(r, event), provisioned)
    /\ CreateKnowledgeBase
    /\ physicalId' = [physicalId EXCEPT ![r] =
                         IF event = "Delete" THEN @
                         ELSE CallOn(r, event).physicalResourceId]

\* the creation of r begins
CreateStart(r) ==
    /\ stack = "CREATE_IN_PROGRESS"
    /\ resource[r] = "NOT_STARTED"
    /\ \A d \in DependsOn(r) : resource[d] = "CREATE_COMPLETE"
    /\ resource' = [resource EXCEPT ![r] = "CREATE_IN_PROGRESS"]
    /\ UNCHANGED <<execVars, crVars>>

\* the creation of r is over (a custom resource: its onCreate call has been
\* made and has returned)
CreateComplete(r) ==
    /\ resource[r] = "CREATE_IN_PROGRESS"
    /\ resource' = [resource EXCEPT ![r] = "CREATE_COMPLETE"]
    /\ IF r \in CustomResources
       THEN OnEvent(r, "Create")
       ELSE UNCHANGED <<provisioned, calls, physicalId, knowledgeBaseId>>
    /\ UNCHANGED <<execVars, stack, updates>>

\* the onCreate call of custom resource r fails: nothing is provisioned by
\* it, the creation of r fails and the stack is rolled back
CreateFailed(r) ==
    /\ r \in CustomResources
    /\ resource[r] = "CREATE_IN_PROGRESS"
    /\ resource' = [resource EXCEPT ![r] = "CREATE_FAILED"]
    /\ calls' = Append(calls, [cr |-> r, event |-> "Create", call |-> CallOn(r, "Create")])
    /\ stack' = "ROLLBACK_IN_PROGRESS"
    /\ UNCHANGED <<execVars, provisioned, physicalId, knowledgeBaseId, updates>>

\* every resource is created: the creation of the stack is complete
StackCreateComplete ==
    /\ stack = "CREATE_IN_PROGRESS"
    /\ \A r \in Resources : resource[r] = "CREATE_COMPLETE"
    /\ stack' = "CREATE_COMPLETE"
    /\ UNCHANGED <<execVars, resource, provisioned, calls, physicalId, knowledgeBaseId, updates>>

\* the custom resources, in the order of their dependencies
CreationOrder == <<"vectorBucketCr", "vectorIndexCr", "knowledgeBaseCr">>

RECURSIVE UpdateCalls(_, _)
\* the Update events of a stack update that changes the resources in S, from
\* the i-th of CreationOrder on
UpdateCalls(S, i) ==
    IF i > Len(CreationOrder) THEN << >>
    ELSE IF CreationOrder[i] \in S
         THEN << [cr |-> CreationOrder[i], event |-> "Update",
                  call |-> CallOn(CreationOrder[i], "Update")] >>
                 \o UpdateCalls(S, i + 1)
         ELSE UpdateCalls(S, i + 1)

RECURSIVE CleanupCalls(_, _)
\* the Delete events that follow in the clean-up of the update, in reverse
\* order: one for every updated resource whose physical id has changed
CleanupCalls(S, i) ==
    IF i < 1 THEN << >>
    ELSE IF /\ CreationOrder[i] \in S
            /\ CallOn(CreationOrder[i], "Update").physicalResourceId
                  # physicalId[CreationOrder[i]]
         THEN << [cr |-> CreationOrder[i], event |-> "Delete",
                  call |-> CallOn(CreationOrder[i], "Delete")] >>
                 \o CleanupCalls(S, i - 1)
         ELSE CleanupCalls(S, i - 1)

RECURSIVE Apply(_, _, _)
\* what is provisioned after the calls of cs, from the i-th on
Apply(cs, i, p) ==
    IF i > Len(cs) THEN p ELSE Apply(cs, i + 1, SdkCall(cs[i].call, p))

\* a stack update that changes the properties of the custom resources in S:
\* each gets an Update event, and a Delete event for its old physical id
\* when the update has reported another one
UpdateStack(S) ==
    /\ stack \in {"CREATE_COMPLETE", "UPDATE_COMPLETE"}
    /\ updates < MaxUpdates
    /\ S # {}
    /\ LET cs == UpdateCalls(S, 1) \o CleanupCalls(S, Len(CreationOrder))
       IN  /\ calls' = calls \o cs
           /\ provisioned' = Apply(cs, 1, provisioned)
    /\ CreateKnowledgeBase
    /\ physicalId' = [r \in CustomResources |->
                         IF r \in S THEN CallOn(r, "Update").physicalResourceId
                         ELSE physicalId[r]]
    /\ resource' = [r \in Resources |->
                       IF r \in S THEN "UPDATE_COMPLETE" ELSE resource[r]]
    /\ stack' = "UPDATE_COMPLETE"
    /\ updates' = updates + 1
    /\ UNCHANGED execVars

\* the stack is deleted
DeleteStack ==
    /\ stack \in {"CREATE_COMPLETE", "UPDATE_COMPLETE"}
    /\ stack' = "DELETE_IN_PROGRESS"
    /\ UNCHANGED <<execVars, resource, provisioned, calls, physicalId, knowledgeBaseId, updates>>

\* r is there to be deleted
Created(r) ==
    resource[r] \in {"CREATE_COMPLETE", "UPDATE_COMPLETE", "CREATE_FAILED"}

\* r is deleted, in a stack deletion or a rollback, once everything created
\* after it is gone (a custom resource: its onDelete call is made)
Delete(r) ==
    /\ stack \in {"DELETE_IN_PROGRESS", "ROLLBACK_IN_PROGRESS"}
    /\ Created(r)
    /\ \A d \in Resources :
          r \in DependsOn(d) => resource[d] \in {"NOT_STARTED", "DELETE_COMPLETE"}
    /\ resource' = [resource EXCEPT ![r] = "DELETE_COMPLETE"]
    /\ IF r \in CustomResources
       THEN OnEvent(r, "Delete")
       ELSE UNCHANGED <<provisioned, calls, physicalId, knowledgeBaseId>>
    /\ UNCHANGED <<execVars, stack, updates>>

\* the deletion or the rollback is complete
DeleteComplete ==
    /\ stack \in {"DELETE_IN_PROGRESS", "ROLLBACK_IN_PROGRESS"}
    /\ \A r \in Resources : resource[r] \in {"NOT_STARTED", "DELETE_COMPLETE"}
    /\ stack' = IF stack = "DELETE_IN_PROGRESS"
                THEN "DELETE_COMPLETE" ELSE "ROLLBACK_COMPLETE"
    /\ UNCHANGED <<execVars, resource, provisioned, calls, physicalId, knowledgeBaseId, updates>>

(***************************************************************************)
(* The local test scripts (tests/local/test-sdk-simple.sh and              *)
(* test-sdk-mcp.sh): the ping test and the invocation requests after it.   *)
(* Strings the scripts match are sequences of characters.                  *)
(***************************************************************************)
Scripts == {"test-sdk-simple.sh", "test-sdk-mcp.sh"}

\* the invocation requests each script sends after the ping test
Requests(sh) == IF sh = "test-sdk-simple.sh" THEN 3 ELSE 2

Digits == <<"0", "1", "2", "3", "4", "5", "6", "7", "8", "9">>

\* {"status":"<status>","time_of_last_update":<t>}
PingBody(statusChars, t) ==
    <<"{", "\"", "s", "t", "a", "t", "u", "s", "\"", ":", "\"">>
    \o statusChars
    \o <<"\"", ",", "\"", "t", "i", "m", "e", "_", "o", "f", "_", "l", "a", "s", "t",
         "_", "u", "p", "d", "a", "t", "e", "\"", ":">>
    \o <<Digits[t + 1]>>
    \o <<"}">>

\* the status the README documents for GET /ping
Healthy == <<"H", "e", "a", "l", "t", "h", "y">>

\* statuses a ping can come back with
PingStatuses ==
    {Healthy,
     <<"h", "e", "a", "l", "t", "h", "y">>,
     <<"H", "e", "a", "l", "t", "h", "y", "B", "u", "s", "y">>,
     <<"u", "n", "h", "e", "a", "l", "t", "h", "y">>}

\* what curl -s http://localhost:8081/ping can give: a body of the runtime,
\* or nothing when the runtime does not answer
PingResponses ==
    {PingBody(st, t) : st \in PingStatuses, t \in 0 .. MaxTime} \cup {<< >>}

\* [[ $s == *"pat"* ]]: pat occurs in s, the case of the letters included
Matches(str, pat) ==
    \E i \in 0 .. Len(str) - Len(pat) : SubSeq(str, i + 1, i + Len(pat)) = pat

\* the pattern of the ping test: *"healthy"*
PingPattern == <<"h", "e", "a", "l", "t", "h", "y">>

\* no script is run
NoScript ==
    /\ script = "None" /\ line = "None" /\ ping_response = << >>
    /\ printed = "None" /\ sent = 0 /\ exit = "None"

\* everything but the script
stackVars == <<pc, status, data, retryCount, waited, elapsed, lastError, jobs, ingestion,
               requests, input, cause, events, inbox, resource, crVars>>

\* ping_response=$(curl -s http://localhost:8081/ping)
Curl ==
    /\ line = "ping"
    /\ \E r \in PingResponses : ping_response' = r
    /\ line' = "test"
    /\ UNCHANGED <<script, printed, sent, exit, stackVars>>

\* if [[ $ping_response == *"healthy"* ]]; then echo "Ping successful"
\* else echo "Ping failed" (and, in test-sdk-simple.sh, exit 1)
PingTest ==
    /\ line = "test"
    /\ IF Matches(ping_response, PingPattern)
       THEN /\ printed' = "Ping successful"
            /\ line' = "invocations"
            /\ UNCHANGED exit
       ELSE /\ printed' = "Ping failed"
            /\ IF script = "test-sdk-simple.sh"
               THEN line' = "end" /\ exit' = 1
               ELSE line' = "invocations" /\ UNCHANGED exit
    /\ UNCHANGED <<script, ping_response, sent, stackVars>>

\* curl -X POST http://localhost:8081/invocations: the next request
Invocation ==
    /\ line = "invocations"
    /\ sent < Requests(script)
    /\ sent' = sent + 1
    /\ UNCHANGED <<script, line, ping_response, printed, exit, stackVars>>

\* the script runs to its end
ScriptEnd ==
    /\ line = "invocations"
    /\ sent = Requests(script)
    /\ line' = "end"
    /\ exit' = 0
    /\ UNCHANGED <<script, ping_response, printed, sent, stackVars>>

(***************************************************************************)
(* Initial states and specifications.                                      *)
(***************************************************************************)
\* no execution has been started
NoExecution ==
    /\ pc = [e \in Executions |-> syncStateMachine.definition.startAt]
    /\ status = [e \in Executions |-> "NOT_STARTED"]
    /\ data = [e \in Executions |-> ExecutionInput]
    /\ input = [e \in Executions |-> ExecutionInput]
    /\ retryCount = [e \in Executions |-> 0]
    /\ waited = [e \in Executions |-> 0]
    /\ elapsed = [e \in Executions |-> 0]
    /\ lastError = [e \in Executions |-> "None"]
    /\ jobs = [e \in Executions |-> 0]
    /\ ingestion = [e \in Executions |-> NoJob]
    /\ requests = [e \in Executions |-> {}]
    /\ cause = [e \in Executions |-> 0]

\* the Create events of the custom resources, in the order of their
\* dependencies
CreateCalls ==
    [i \in 1 .. Len(CreationOrder) |->
        [cr |-> CreationOrder[i], event |-> "Create",
         call |-> CallOn(CreationOrder[i], "Create")]]

\* the stack is deployed
Deployed ==
    /\ resource = [r \in Resources |-> "CREATE_COMPLETE"]
    /\ stack = "CREATE_COMPLETE"
    /\ provisioned = Apply(CreateCalls, 1, [m \in Managed |-> NotProvisioned])
    /\ calls = CreateCalls
    /\ physicalId = [r \in CustomResources |-> CallOn(r, "Create").physicalResourceId]
    /\ knowledgeBaseId \in KnowledgeBaseIds
    /\ updates = 0

\* the deployed stack right after the trigger has started execution 1 for
\* the first object created
Init ==
    /\ Deployed
    /\ events = 1
    /\ inbox = {}
    /\ pc = [e \in Executions |-> syncStateMachine.definition.startAt]
    /\ status = [e \in Executions |-> IF e = 1 THEN "RUNNING" ELSE "NOT_STARTED"]
    /\ data = [e \in Executions |-> ExecutionInput]
    /\ input = [e \in Executions |-> ExecutionInput]
    /\ retryCount = [e \in Executions |-> 0]
    /\ waited = [e \in Executions |-> 0]
    /\ elapsed = [e \in Executions |-> 0]
    /\ lastError = [e \in Executions |-> "None"]
    /\ jobs = [e \in Executions |-> 0]
    /\ ingestion = [e \in Executions |-> NoJob]
    /\ requests = [e \in Executions |-> {}]
    /\ cause = [e \in Executions |-> IF e = 1 THEN 1 ELSE 0]
    /\ NoScript

Next == \E e \in Executions : Step(e) \/ Tick(e) \/ Ingest(e)

Spec == Init /\ [][Next]_vars

\* the stack before CloudFormation has created anything
InitDeploy ==
    /\ resource = [r \in Resources |-> "NOT_STARTED"]
    /\ stack = "CREATE_IN_PROGRESS"
    /\ provisioned = [m \in Managed |-> NotProvisioned]
    /\ calls = << >>
    /\ physicalId = [r \in CustomResources |-> "None"]
    /\ knowledgeBaseId = "None"
    /\ updates = 0
    /\ events = 0
    /\ inbox = {}
    /\ NoExecution
    /\ NoScript

NextDeploy ==
    \/ \E r \in Resources : CreateStart(r) \/ CreateComplete(r)
    \/ UploadPolicies
    \/ \E k \in Events : TriggerSync(k)

SpecDeploy == InitDeploy /\ [][NextDeploy]_vars

\* the deployed stack before any object is created
InitTrigger ==
    /\ Deployed
    /\ events = 0
    /\ inbox = {}
    /\ NoExecution
    /\ NoScript

NextTrigger ==
    \/ ObjectCreated
    \/ \E k \in Events : TriggerSync(k)
    \/ \E e \in Executions : StateStep(e) \/ Elapse(e) \/ Ingest(e)

SpecTrigger == InitTrigger /\ [][NextTrigger]_vars

\* the life of the stack: it is created, and rolled back when a custom
\* resource fails; once created it is updated and, in the end, deleted
NextLifecycle ==
    \/ \E r \in Resources : CreateStart(r) \/ CreateComplete(r) \/ CreateFailed(r)
    \/ StackCreateComplete
    \/ \E S \in SUBSET CustomResources : UpdateStack(S)
    \/ DeleteStack
    \/ \E r \in Resources : Delete(r)
    \/ DeleteComplete

SpecLifecycle == InitDeploy /\ [][NextLifecycle]_vars

\* one of the test scripts has started the runtime locally and comes to its
\* ping test
InitPing ==
    /\ Deployed
    /\ events = 0
    /\ inbox = {}
    /\ NoExecution
    /\ script \in Scripts
    /\ line = "ping"
    /\ ping_response = << >>
    /\ printed = "None"
    /\ sent = 0
    /\ exit = "None"

NextPing == Curl \/ PingTest \/ Invocation \/ ScriptEnd

SpecPing == InitPing /\ [][NextPing]_vars

\* the same run, with the fairness of the services: Step Functions takes an
\* enabled step, a Lambda invocation comes back, and time passes
FairSpec ==
    /\ Spec
    /\ \A e \in Executions : WF_vars(Step(e)) /\ WF_vars(Tick(e))

(***************************************************************************)
(* Properties of one execution.                                            *)
(***************************************************************************)
Ended == {"SUCCEEDED", "FAILED", "TIMED_OUT"}

TerminalStates == {"SyncComplete", "SyncFailed"}

TaskStates == {"StartSyncJob", "CheckJobStatus"}

\* the errors of the Lambda service, as opposed to the function's own
ServiceExceptions ==
    {"Lambda.ClientExecutionTimeoutException", "Lambda.ServiceException",
     "Lambda.AWSLambdaException", "Lambda.SdkClientException"}

\* an invocation made by execution e in this step has failed: it is retried
\* or it fails the execution
InvocationFails(e) ==
    /\ pc[e] \in TaskStates /\ status[e] = "RUNNING"
    /\ \/ retryCount'[e] > retryCount[e]
       \/ status'[e] = "FAILED"

\* the Choice has evaluated the data of execution e in this step
Evaluates(e) ==
    /\ pc[e] = "IsSyncComplete" /\ status[e] = "RUNNING"
    /\ \/ pc'[e] # pc[e]
       \/ status'[e] = "FAILED"

FinalStatusIs(e, v) ==
    HasFinalStatus(data[e]) /\ data[e].Payload.final_status = v

\* C1: an execution is only ever in one of the declared states; the state
\* SyncComplete is never left and neither is SyncFailed, so no execution is
\* in both; SUCCEEDED is the outcome of SyncComplete only and SyncFailed
\* never gives it; an execution that has ended takes no further step.
C1_OneTerminalState ==
    /\ [](\A e \in Executions :
            /\ pc[e] \in StateNames
            /\ status[e] = "SUCCEEDED" => pc[e] = "SyncComplete"
            /\ pc[e] = "SyncFailed" => status[e] # "SUCCEEDED")
    /\ [][\A e \in Executions :
            /\ pc[e] \in TerminalStates => pc'[e] = pc[e]
            /\ status[e] \in Ended =>
                 /\ pc'[e] = pc[e] /\ status'[e] = status[e]
                 /\ data'[e] = data[e] /\ jobs'[e] = jobs[e]
                 /\ retryCount'[e] = retryCount[e]]_vars

\* C1 witness: an execution ended in SyncFailed after at least one poll
C1_Witness ==
    \E e \in Executions :
        /\ pc[e] = "SyncFailed" /\ status[e] = "FAILED"
        /\ elapsed[e] >= WaitMinutes

\* C2 as stated: whenever an invocation of StartSyncJob fails, the execution
\* is FAILED at once (and so never enters WaitForSync or CheckJobStatus).
C2_StartFailureEnds ==
    [][\A e \in Executions :
         (pc[e] = "StartSyncJob" /\ InvocationFails(e)) => status'[e] = "FAILED"]_vars

\* C2 amended: a failed invocation of StartSyncJob ends the execution FAILED
\* at once unless it is a Lambda service exception with a retry left, which
\* leaves the execution in StartSyncJob; an execution FAILED in StartSyncJob
\* stays there, with no ingestion job started.
C2_StartFailureEndsUnlessRetried ==
    /\ [][\A e \in Executions :
            (pc[e] = "StartSyncJob" /\ InvocationFails(e)) =>
               IF lastError'[e] \in ServiceExceptions /\ retryCount[e] < 6
               THEN pc'[e] = "StartSyncJob" /\ status'[e] = "RUNNING"
               ELSE pc'[e] = "StartSyncJob" /\ status'[e] = "FAILED"]_vars
    /\ [](\A e \in Executions :
            (pc[e] = "StartSyncJob" /\ status[e] = "FAILED") => jobs[e] = 0)
    /\ [][\A e \in Executions :
            (pc[e] = "StartSyncJob" /\ status[e] = "FAILED") =>
               (pc'[e] = "StartSyncJob" /\ status'[e] = "FAILED")]_vars

\* C2 witness: StartSyncJob has failed for good after its retries
C2_Witness ==
    \E e \in Executions :
        /\ pc[e] = "StartSyncJob" /\ status[e] = "FAILED"
        /\ retryCount[e] = 6

\* C3: every running execution ends; at the deadline it ends TIMED_OUT,
\* never SUCCEEDED and never still running for good; before the deadline it
\* runs on only while no terminal status has been seen.
C3_Terminates ==
    /\ \A e \in Executions :
          [](status[e] = "RUNNING" => <>(status[e] \in Ended))
    /\ \A e \in Executions :
          [](elapsed[e] >= TimeoutMinutes => <>(status[e] = "TIMED_OUT"))
    /\ [](\A e \in Executions :
            /\ elapsed[e] <= TimeoutMinutes
            /\ elapsed[e] >= TimeoutMinutes => status[e] \in {"RUNNING", "TIMED_OUT"})

\* C3 witness: an execution polled until the deadline and was timed out
C3_Witness ==
    \E e \in Executions :
        /\ status[e] = "TIMED_OUT" /\ elapsed[e] = TimeoutMinutes
        /\ pc[e] \in {"WaitForSync", "CheckJobStatus", "IsSyncComplete"}
        /\ FinalStatusIs(e, "IN_PROGRESS")

\* C4: a response of CheckJobStatus goes to the Choice; the Choice sends
\* COMPLETE to SyncComplete and FAILED to SyncFailed; SyncComplete is only
\* ever entered, and SUCCEEDED only ever reached, on a COMPLETE response.
C4_OutcomeFollowsStatus ==
    /\ [][\A e \in Executions :
            /\ (pc[e] = "CheckJobStatus" /\ pc'[e] # pc[e]) =>
                  pc'[e] = "IsSyncComplete"
            /\ (Evaluates(e) /\ FinalStatusIs(e, "COMPLETE")) =>
                  (pc'[e] = "SyncComplete" /\ status'[e] = "RUNNING")
            /\ (Evaluates(e) /\ FinalStatusIs(e, "FAILED")) =>
                  (pc'[e] = "SyncFailed" /\ status'[e] = "RUNNING")
            /\ (pc[e] = "SyncComplete" /\ status[e] = "RUNNING"
                  /\ status'[e] \notin {"RUNNING", "TIMED_OUT"}) =>
                  status'[e] = "SUCCEEDED"
            /\ (pc[e] = "SyncFailed" /\ status[e] = "RUNNING"
                  /\ status'[e] \notin {"RUNNING", "TIMED_OUT"}) =>
                  status'[e] = "FAILED"]_vars
    /\ [](\A e \in Executions :
            /\ pc[e] = "SyncComplete" => FinalStatusIs(e, "COMPLETE")
            /\ status[e] = "SUCCEEDED" => FinalStatusIs(e, "COMPLETE")
            /\ pc[e] = "SyncFailed" => FinalStatusIs(e, "FAILED"))

\* C4 witness: an execution has succeeded on a COMPLETE response
C4_Witness ==
    \E e \in Executions :
        /\ status[e] = "SUCCEEDED" /\ pc[e] = "SyncComplete"
        /\ FinalStatusIs(e, "COMPLETE")

\* C5 as stated: whenever the Choice evaluates a response that is neither
\* COMPLETE nor FAILED, a response without final_status included, the
\* execution goes back to WaitForSync and stays running.
C5_OtherwiseBackToWait ==
    [][\A e \in Executions :
         (Evaluates(e) /\ ~FinalStatusIs(e, "COMPLETE") /\ ~FinalStatusIs(e, "FAILED"))
            => (pc'[e] = "WaitForSync" /\ status'[e] = "RUNNING")]_vars

\* C5 amended: whenever the Choice evaluates a response whose final_status
\* is present and neither COMPLETE nor FAILED, the execution goes back to
\* WaitForSync, still running and with a full wait ahead; a response without
\* final_status fails the execution in the Choice (States.Runtime).
C5_NonTerminalBackToWait ==
    [][\A e \in Executions :
         /\ (Evaluates(e) /\ HasFinalStatus(data[e])
               /\ ~FinalStatusIs(e, "COMPLETE") /\ ~FinalStatusIs(e, "FAILED"))
               => (pc'[e] = "WaitForSync" /\ status'[e] = "RUNNING" /\ waited'[e] = 0)
         /\ (Evaluates(e) /\ ~HasFinalStatus(data[e]))
               => (pc'[e] = "IsSyncComplete" /\ status'[e] = "FAILED"
                     /\ lastError'[e] = "States.Runtime")]_vars

\* C5 witness: an execution is back in WaitForSync after an IN_PROGRESS
\* response
C5_Witness ==
    \E e \in Executions :
        /\ pc[e] = "WaitForSync" /\ status[e] = "RUNNING"
        /\ FinalStatusIs(e, "IN_PROGRESS")

\* C6 as stated: no failed invocation of StartSyncJob or CheckJobStatus is
\* retried; every failed invocation fails the execution at once.
C6_NeverRetries ==
    [][\A e \in Executions :
         InvocationFails(e) => (status'[e] = "FAILED" /\ retryCount'[e] = retryCount[e])]_vars

\* C6 amended: a failed invocation is retried only when its error is a Lambda
\* service exception, and at most 6 times in one visit of the state; a
\* failure of the function itself, and a service exception after the 6th
\* retry, fail the execution at once, in the state that made the invocation.
C6_RetriesOnlyServiceExceptions ==
    /\ [](\A e \in Executions : retryCount[e] <= 6)
    /\ [][\A e \in Executions :
            InvocationFails(e) =>
               /\ pc'[e] = pc[e]
               /\ retryCount'[e] > retryCount[e] =>
                     /\ lastError'[e] \in ServiceExceptions
                     /\ retryCount'[e] = retryCount[e] + 1
                     /\ status'[e] = "RUNNING"
               /\ lastError'[e] \notin ServiceExceptions =>
                     (status'[e] = "FAILED" /\ retryCount'[e] = retryCount[e])
               /\ retryCount[e] = 6 => status'[e] = "FAILED"]_vars

\* C6 witness: CheckJobStatus is about to invoke again after a service
\* exception
C6_Witness ==
    \E e \in Executions :
        /\ pc[e] = "CheckJobStatus" /\ status[e] = "RUNNING"
        /\ retryCount[e] > 0
        /\ lastError[e] \in ServiceExceptions

(***************************************************************************)
(* Properties of the deployment order.                                     *)
(***************************************************************************)
Begun(r) == resource[r] # "NOT_STARTED"

Complete(r) == resource[r] = "CREATE_COMPLETE"

\* the provisioning steps, in the order the design gives them
ProvisioningSteps ==
    {"vectorBucketCr", "vectorIndexCr", "knowledgeBaseCr", "bedrockDataSource",
     "syncKnowledgeBaseLambda", "syncStateMachine"}

\* C7: the creation of vectorIndexCr (its onCreate) does not begin before
\* that of vectorBucketCr is complete, nor the creation of knowledgeBaseCr
\* before that of vectorIndexCr is complete.
C7_ProvisioningOrder ==
    /\ Begun("vectorIndexCr") => Complete("vectorBucketCr")
    /\ Begun("knowledgeBaseCr") => Complete("vectorIndexCr")

\* C7 witness: the knowledge-base registration is being invoked
C7_Witness ==
    /\ resource["knowledgeBaseCr"] = "CREATE_IN_PROGRESS"
    /\ Complete("vectorIndexCr") /\ Complete("vectorBucketCr")

\* C8: neither the data source nor the sync function nor the state machine
\* begins to be created before knowledgeBaseCr is complete, and no two of
\* the provisioning steps are in progress at the same time.
C8_StrictSequence ==
    /\ \A r \in {"bedrockDataSource", "syncKnowledgeBaseLambda", "syncStateMachine"} :
          Begun(r) => Complete("knowledgeBaseCr")
    /\ Cardinality({r \in ProvisioningSteps :
                       resource[r] = "CREATE_IN_PROGRESS"}) <= 1

(***************************************************************************)
(* Properties of the trigger.                                              *)
(***************************************************************************)
\* the executions started for event k
StartsOf(k) == {e \in Started : cause[e] = k}

\* C9: every object-creation event so far is either still waiting to be
\* handled, with no execution started for it, or has exactly one execution,
\* started with the knowledge-base id F0RI3FAYPP and the id of the data
\* source as input; no execution is started without an event.
C9_OneStartPerEvent ==
    /\ \A k \in 1 .. events :
          IF k \in inbox
          THEN StartsOf(k) = {}
          ELSE /\ Cardinality(StartsOf(k)) = 1
               /\ \A e \in StartsOf(k) :
                     input[e] = [knowledge_base_id |-> "F0RI3FAYPP",
                                 data_source_id |-> "bedrockDataSource.attrDataSourceId"]
    /\ \A e \in Started : cause[e] \in 1 .. events

\* C9 witness: two objects were created and each has its execution
C9_Witness ==
    /\ events = 2 /\ inbox = {}
    /\ StartsOf(1) # {} /\ StartsOf(2) # {}

Pair(p) ==
    [knowledge_base_id |-> p.knowledge_base_id,
     data_source_id    |-> p.data_source_id]

\* the payload p with the check-status marker added
Marked(p) ==
    [action            |-> "check_status",
     knowledge_base_id |-> p.knowledge_base_id,
     data_source_id    |-> p.data_source_id]

\* execution e invokes the sync function in this step: the invocation
\* succeeds, is retried, or fails the execution
Invokes(e) ==
    /\ pc[e] \in TaskStates /\ status[e] = "RUNNING"
    /\ \/ pc'[e] # pc[e]
       \/ retryCount'[e] > retryCount[e]
       \/ status'[e] = "FAILED"

\* execution o has an ingestion job in flight
InFlight(o) == Running(o) /\ jobs[o] > 0

\* C14: every payload an execution has invoked the sync function with
\* carries the pair of identifiers the trigger handler gave the execution as
\* input; the payload of StartSyncJob is that pair and nothing else (no
\* action marker), the payload of CheckJobStatus is that pair with
\* action = 'check_status' added.
C14_SameIdentifiers ==
    /\ [](\A e \in Started :
            /\ \A p \in requests[e] : Pair(p) = input[e]
            /\ requests[e] \subseteq {input[e], Marked(input[e])}
            /\ pc[e] \in {"CheckSyncStatus", "StartSyncJob"} =>
                  requests[e] \subseteq {input[e]}
            /\ jobs[e] > 0 => input[e] \in requests[e])
    /\ [][\A e \in Executions :
            Invokes(e) =>
               requests'[e] = requests[e] \cup
                  {IF pc[e] = "StartSyncJob" THEN input[e] ELSE Marked(input[e])}]_vars

\* C14 witness: an execution started by the trigger has made both kinds of
\* invocation
C14_Witness ==
    \E e \in Started :
        /\ cause[e] \in 1 .. events
        /\ requests[e] = {input[e], Marked(input[e])}
        /\ "action" \notin DOMAIN input[e]

\* C16: an execution leaves CheckSyncStatus for StartSyncJob only while no
\* other execution has an ingestion job in flight.
C16_ConcurrencyControl ==
    [][\A e \in Executions :
         (pc[e] = "CheckSyncStatus" /\ pc'[e] = "StartSyncJob")
            => ~(\E o \in Executions \ {e} : InFlight(o))]_vars

\* C17 as stated: CheckJobStatus is entered from WaitForSync only, after the
\* full wait, and every invocation it makes is the first since that wait.
C17_WaitBeforeEveryCheck ==
    [][\A e \in Executions :
         /\ (pc'[e] = "CheckJobStatus" /\ pc[e] # "CheckJobStatus") =>
               (pc[e] = "WaitForSync" /\ waited[e] = 2)
         /\ (pc[e] = "CheckJobStatus" /\ Invokes(e)) => retryCount[e] = 0]_vars

\* C17 amended: CheckJobStatus is entered from WaitForSync only, after the
\* full wait of 2 minutes, and WaitForSync from a successful StartSyncJob or
\* from the Choice only, so the first invocation of every visit of
\* CheckJobStatus follows one full wait; an invocation that is not the first
\* of its visit follows a Lambda service exception of the one before, with
\* no wait in between, and there are at most 6 of them in a visit.
C17_WaitBeforeFirstCheckOfVisit ==
    /\ [][\A e \in Executions :
            /\ (pc'[e] = "CheckJobStatus" /\ pc[e] # "CheckJobStatus") =>
                  /\ pc[e] = "WaitForSync" /\ waited[e] = 2
                  /\ retryCount'[e] = 0
            /\ (pc'[e] = "WaitForSync" /\ pc[e] # "WaitForSync") =>
                  /\ pc[e] \in {"StartSyncJob", "IsSyncComplete"}
                  /\ waited'[e] = 0
            /\ (pc[e] = "CheckJobStatus" /\ Invokes(e) /\ retryCount[e] > 0) =>
                  /\ lastError[e] \in ServiceExceptions
                  /\ waited[e] = 0]_vars
    /\ [](\A e \in Executions :
            /\ waited[e] <= 2
            /\ pc[e] = "CheckJobStatus" => retryCount[e] <= 6)

\* C17 witness: the second status check of an execution is about to be
\* made, two full waits after the start
C17_Witness ==
    \E e \in Executions :
        /\ pc[e] = "CheckJobStatus" /\ status[e] = "RUNNING"
        /\ retryCount[e] = 0
        /\ FinalStatusIs(e, "IN_PROGRESS")
        /\ elapsed[e] = 2 * WaitMinutes

\* C20 as stated: every invocation StartSyncJob makes is the first of the
\* execution, StartSyncJob is entered from CheckSyncStatus only, and no
\* execution starts two ingestion jobs.
C20_StartInvokedOnce ==
    /\ [][\A e \in Executions :
            /\ (pc[e] = "StartSyncJob" /\ Invokes(e)) => retryCount[e] = 0
            /\ (pc'[e] = "StartSyncJob" /\ pc[e] # "StartSyncJob") =>
                  pc[e] = "CheckSyncStatus"]_vars
    /\ [](\A e \in Executions : jobs[e] <= 1)

\* C20 amended: StartSyncJob is entered from CheckSyncStatus only, never
\* from the poll loop, and is left by its one successful invocation, so at
\* most one start request of an execution succeeds; within that one visit
\* the start request is invoked again only after a Lambda service exception,
\* at most 6 times more.
C20_StartVisitedOnce ==
    /\ [][\A e \in Executions :
            /\ (pc'[e] = "StartSyncJob" /\ pc[e] # "StartSyncJob") =>
                  pc[e] = "CheckSyncStatus"
            /\ jobs'[e] > jobs[e] =>
                  (pc[e] = "StartSyncJob" /\ pc'[e] = "WaitForSync")
            /\ (pc[e] = "StartSyncJob" /\ Invokes(e) /\ retryCount[e] > 0) =>
                  lastError[e] \in ServiceExceptions]_vars
    /\ [](\A e \in Executions :
            /\ jobs[e] <= 1
            /\ pc[e] = "StartSyncJob" => (jobs[e] = 0 /\ retryCount[e] <= 6))

\* C20 witness: after a non-terminal status response, a status check has
\* failed the execution; one ingestion job was started
C20_Witness ==
    \E e \in Executions :
        /\ pc[e] = "CheckJobStatus" /\ status[e] = "FAILED"
        /\ FinalStatusIs(e, "STARTING")
        /\ jobs[e] = 1

(***************************************************************************)
(* Properties of the asset deployment.                                     *)
(***************************************************************************)
\* what is to be there before the assets are deployed
Infrastructure ==
    {"vectorBucketCr", "vectorIndexCr", "knowledgeBaseCr", "bedrockDataSource",
     "syncStateMachine", "triggerSyncLambda"}

\* C18: the creation of s3DeployPolicies does not begin, and no document
\* is uploaded, before vectorBucketCr, vectorIndexCr, knowledgeBaseCr,
\* bedrockDataSource, syncStateMachine and triggerSyncLambda are all
\* created.
C18_DeployAfterInfrastructure ==
    (Begun("s3DeployPolicies") \/ events > 0) =>
        \A r \in Infrastructure : Complete(r)

\* C18 witness: a document has been uploaded by the deployment
C18_Witness ==
    /\ resource["s3DeployPolicies"] = "CREATE_IN_PROGRESS"
    /\ events > 0
    /\ Complete("knowledgeBaseCr") /\ Complete("triggerSyncLambda")

\* C19: the notification is in place before the deployment begins, and
\* every document uploaded so far is notified to the trigger function or has
\* its execution.
C19_NotificationBeforeUpload ==
    /\ Begun("s3DeployPolicies") => Complete("eventNotification")
    /\ \A k \in 1 .. events : k \in inbox \/ StartsOf(k) # {}

(***************************************************************************)
(* Properties of the life of the custom resources.                         *)
(***************************************************************************)
\* what custom resource r provisions
ManagedBy(r) == Creates(CallOn(r, "Create").parameters.FunctionName)

\* the calls custom resource r has made on an event of the given type
CallsOf(r, event) ==
    {i \in DOMAIN calls : calls[i].cr = r /\ calls[i].event = event}

RolledBack == {"ROLLBACK_IN_PROGRESS", "ROLLBACK_COMPLETE"}

\* C11: each of the three custom resources makes its create call at most
\* once, and exactly once when it is created; once the stack is deleted
\* each has handled one Delete event and none of the vector bucket, the
\* vector index and the knowledge base remains.
C11_CreatedOnceDeletedOnce ==
    /\ \A r \in CustomResources :
          /\ Cardinality(CallsOf(r, "Create")) <= 1
          /\ resource[r] = "CREATE_COMPLETE" => Cardinality(CallsOf(r, "Create")) = 1
    /\ stack = "DELETE_COMPLETE" =>
          /\ \A r \in CustomResources : CallsOf(r, "Delete") # {}
          /\ \A m \in Managed : provisioned[m] = NotProvisioned

\* C12: a stack update leaves what is provisioned as it is; on an Update
\* event vectorBucketCr and knowledgeBaseCr call sts:GetCallerIdentity and
\* nothing else, vectorIndexCr invokes createVectorIndexLambda with the
\* bucket name, the index name and the dimension 1024 of its create call;
\* the Delete events of an update's clean-up call sts:GetCallerIdentity.
C12_UpdateChangesNothing ==
    /\ [][updates' # updates => provisioned' = provisioned]_vars
    /\ [](\A i \in DOMAIN calls :
            /\ (calls[i].event = "Update" /\ calls[i].cr # "vectorIndexCr") =>
                  (calls[i].call.service = "STS"
                     /\ calls[i].call.action = "getCallerIdentity")
            /\ (calls[i].event = "Update" /\ calls[i].cr = "vectorIndexCr") =>
                  /\ calls[i].call.service = "Lambda"
                  /\ calls[i].call.action = "invoke"
                  /\ calls[i].call.parameters =
                        [FunctionName |-> "createVectorIndexLambda",
                         Payload |-> [vector_bucket_name |-> "broker-agent-policy-vector-bucket",
                                      vector_index_name  |-> "broker-agent-policy-vector-index",
                                      vector_dimension   |-> 1024]]
                  /\ \E j \in 1 .. i - 1 :
                        /\ calls[j].cr = "vectorIndexCr" /\ calls[j].event = "Create"
                        /\ calls[j].call.parameters = calls[i].call.parameters
            /\ (calls[i].event = "Delete" /\ stack = "UPDATE_COMPLETE") =>
                  calls[i].call.service = "STS")

\* C12 witness: the stack has been updated twice, the index resource among
\* the updated, and the index is as it was created
C12_Witness ==
    /\ stack = "UPDATE_COMPLETE" /\ updates = 2
    /\ Cardinality(CallsOf("vectorIndexCr", "Update")) = 2
    /\ CallsOf("vectorBucketCr", "Update") # {}
    /\ provisioned["vectorIndex"].vector_dimension = 1024

\* C13: when the creation of a custom resource fails, and all through the
\* rollback that follows, what is provisioned stays as it is: the resources
\* created before the failure are still there after the rollback, as they
\* were created.
C13_EarlierStepsNotUndone ==
    /\ [][stack' \in RolledBack => provisioned' = provisioned]_vars
    /\ [](stack \in RolledBack =>
            \A r \in CustomResources :
               physicalId[r] # "None" =>
                  provisioned[ManagedBy(r)] = CallOn(r, "Create").parameters.Payload)

\* C13 witness: the knowledge-base registration has failed and the stack is
\* rolled back, the Delete events handled; bucket and index are there
C13_Witness ==
    /\ stack = "ROLLBACK_COMPLETE"
    /\ physicalId["knowledgeBaseCr"] = "None"
    /\ CallsOf("vectorBucketCr", "Delete") # {} /\ CallsOf("vectorIndexCr", "Delete") # {}
    /\ provisioned["vectorBucket"] # NotProvisioned
    /\ provisioned["vectorIndex"] # NotProvisioned
    /\ provisioned["knowledgeBase"] = NotProvisioned

(***************************************************************************)
(* Properties of the test scripts.                                         *)
(***************************************************************************)
\* the healthy responses the README documents for GET /ping
DocumentedHealthy == {PingBody(Healthy, t) : t \in 0 .. MaxTime}

\* C15: once the ping test has run on a response that is the documented
\* healthy one, it has printed "Ping successful", and test-sdk-simple.sh has
\* not exited with status 1 but goes on to its invocation requests.
C15_PingReportsHealthy ==
    (printed # "None" /\ ping_response \in DocumentedHealthy) =>
        /\ printed = "Ping successful"
        /\ exit # 1
        /\ line \in {"invocations", "end"}
        /\ line = "end" => sent = Requests(script)

(***************************************************************************)
(* The job a status check is about.                                        *)
(***************************************************************************)
\* C21: the status an execution's CheckJobStatus evaluates is the status of
\* the ingestion job its own StartSyncJob started, also when other
\* executions of the same knowledge base and data source are in flight: the
\* final_status a check hands to IsSyncComplete is the status of the
\* execution's own job, an execution is in SyncComplete only when its own
\* job is COMPLETE, and in SyncFailed only when its own job is FAILED.
C21_OwnJobStatus ==
    /\ [][\A e \in Executions :
            (/\ pc[e] = "CheckJobStatus" /\ pc'[e] = "IsSyncComplete"
             /\ HasFinalStatus(data'[e])) =>
                data'[e].Payload.final_status = ingestion[e].status]_vars
    /\ [](\A e \in Executions :
            /\ pc[e] = "SyncComplete" => ingestion[e].status = "COMPLETE"
            /\ pc[e] = "SyncFailed" => ingestion[e].status = "FAILED")

(***************************************************************************)
(* The knowledge base the deployment refers to.                            *)
(***************************************************************************)
\* the knowledge-base identifiers a resource is configured with
KnowledgeBaseIdsOf(r) ==
    CASE r = "bedrockDataSource"       -> {bedrockDataSource.knowledgeBaseId}
      [] r = "syncKnowledgeBaseLambda" -> {syncKnowledgeBaseEnvironment.KNOWLEDGE_BASE_ID}
      [] r = "syncStateMachine"        -> {startSyncJob.payload.knowledge_base_id,
                                           checkJobStatus.payload.knowledge_base_id}
      [] r = "triggerSyncLambda"       -> {triggerSyncEnvironment.KNOWLEDGE_BASE_ID}
      [] OTHER                         -> {}

\* every knowledge-base identifier the resources are configured with
KnowledgeBaseIdsUsed == UNION {KnowledgeBaseIdsOf(r) : r \in Resources}

\* C22: the knowledge-base identifier of the data source binding, of the sync
\* function's environment, of both workflow payloads and of the trigger
\* function's environment is one value, and in every deployment it is the
\* identifier of the knowledge base that knowledgeBaseCr of that deployment
\* has created.
C22_OneKnowledgeBaseId ==
    /\ Cardinality(KnowledgeBaseIdsUsed) = 1
    /\ \A r \in Resources :
          (Complete("knowledgeBaseCr") /\ Complete(r)) =>
              KnowledgeBaseIdsOf(r) \subseteq {knowledgeBaseId}


====
